---- MODULE Spec2Model ----
(***************************************************************************)
(* Model of backend/server.py (the /plan and /refactor handlers) and of    *)
(* backend/agent_logic.py (AgentBrain.plan_refactoring).                   *)
(*                                                                         *)
(* A Python str or bytes value is a sequence of code units (naturals):     *)
(* "x=1\n" is <<120, 61, 49, 10>> and "" is <<>>.  Python's None is the    *)
(* definition None.  Exception messages and fixed literals that the code   *)
(* never takes apart are TLA+ strings.                                     *)
(***************************************************************************)
EXTENDS Integers, Sequences, FiniteSets, TLC

\* Python's None (ResultItem.error, RefactorResponse.branch).
None == "None"

----------------------------------------------------------------------------
(* Sequence helpers                                                        *)

\* The element of a one-element set.  A local value is bound once by
\*     The({ body : x \in {value} })
\* as an assignment to a local variable binds it in the code; TLC then
\* evaluates value one time, however often body reads x.
The(S) == CHOOSE x \in S : TRUE

RECURSIVE Concat(_)
\* ''.join(parts)
Concat(parts) ==
    IF parts = <<>> THEN <<>> ELSE Head(parts) \o Concat(Tail(parts))

RECURSIVE Sum(_)
\* sum(...) of a sequence of integers
Sum(ns) == IF ns = <<>> THEN 0 ELSE Head(ns) + Sum(Tail(ns))

Max(a, b) == IF a >= b THEN a ELSE b
Min(a, b) == IF a <= b THEN a ELSE b

RECURSIVE SplitOn(_, _, _)
\* str.split(sep) for a one-character sep: cur is the segment being read.
SplitOn(s, sep, cur) ==
    IF s = <<>> THEN <<cur>>
    ELSE IF Head(s) = sep THEN <<cur>> \o SplitOn(Tail(s), sep, <<>>)
    ELSE SplitOn(Tail(s), sep, Append(cur, Head(s)))

\* os.sep on the POSIX host the server runs on: "/"
OsSep == <<47>>

\* path.split(os.sep)
Split(path) == SplitOn(path, OsSep[1], <<>>)

\* ".."
DotDot == <<46, 46>>

\* ".." in path.split(os.sep)
HasTraversal(path) == \E k \in 1..Len(Split(path)) : Split(path)[k] = DotDot

\* ".py"
DotPy == <<46, 112, 121>>

\* path.endswith(".py")
EndsWithPy(path) ==
    /\ Len(path) >= Len(DotPy)
    /\ SubSeq(path, Len(path) - Len(DotPy) + 1, Len(path)) = DotPy

RECURSIVE LexLess(_, _)
\* Python's str ordering: a < b, by code point
LexLess(a, b) ==
    IF b = <<>> THEN FALSE
    ELSE IF a = <<>> THEN TRUE
    ELSE IF Head(a) # Head(b) THEN Head(a) < Head(b)
    ELSE LexLess(Tail(a), Tail(b))

RECURSIVE Insert(_, _)
Insert(x, sorted) ==
    IF sorted = <<>> THEN <<x>>
    ELSE IF LexLess(x, Head(sorted)) THEN <<x>> \o sorted
    ELSE <<Head(sorted)>> \o Insert(x, Tail(sorted))

RECURSIVE Sorted(_)
\* sorted(paths): ascending, duplicates kept
Sorted(xs) == IF xs = <<>> THEN <<>> ELSE Insert(Head(xs), Sorted(Tail(xs)))

----------------------------------------------------------------------------
(* Fingerprinting: hashlib.sha256(...).hexdigest()                         *)

\* The digest is scaled down from 256 bits to 15: a polynomial hash modulo
\* the prime 32749, written as 4 hexadecimal digits instead of 64.
RECURSIVE HashFrom(_, _)
HashFrom(h, s) ==
    IF s = <<>> THEN h
    ELSE HashFrom(((h * 257) + Head(s) + 1) % 32749, Tail(s))

Hash(s) == HashFrom(7, s)

\* One hexadecimal digit, as hexdigest writes it (0-9, a-f).
HexDigit(d) == IF d < 10 THEN 48 + d ELSE 87 + d

RECURSIVE ToHex(_, _)
ToHex(n, width) ==
    IF width = 0 THEN <<>>
    ELSE Append(ToHex(n \div 16, width - 1), HexDigit(n % 16))

\* hashlib.sha256(text.encode()).hexdigest()
Sha(text) == ToHex(Hash(text), 4)

RECURSIVE Pow10(_)
Pow10(n) == IF n = 0 THEN 1 ELSE 10 * Pow10(n - 1)

\* int(hashlib.sha256(request_id.encode()).hexdigest(), 16) % (10**8)
Seed(request_id) == Hash(request_id) % Pow10(8)

----------------------------------------------------------------------------
(* Content codec: base64.b64decode(content).decode('utf-8', 'ignore')      *)

\* The value of a base64 alphabet character, 64 for any other character
\* (binascii's table_a2b_base64).
B64Value(c) ==
    IF c >= 65 /\ c <= 90 THEN c - 65
    ELSE IF c >= 97 /\ c <= 122 THEN c - 71
    ELSE IF c >= 48 /\ c <= 57 THEN c + 4
    ELSE IF c = 43 THEN 62
    ELSE IF c = 47 THEN 63
    ELSE 64

RECURSIVE A2bBase64(_, _, _, _, _)
\* binascii.a2b_base64 in its default, non-strict mode: characters outside
\* the alphabet are skipped, a completed pad sequence ends the parse, and
\* an unfinished quad at the end of the input raises binascii.Error.
A2bBase64(s, quad_pos, pads, leftchar, out) ==
    IF s = <<>> THEN
        IF quad_pos = 0 THEN [ok |-> TRUE, bytes |-> out, error |-> ""]
        ELSE IF quad_pos = 1 THEN
            [ok |-> FALSE, bytes |-> <<>>,
             error |-> "Invalid base64-encoded string: number of data characters cannot be 1 more than a multiple of 4"]
        ELSE [ok |-> FALSE, bytes |-> <<>>, error |-> "Incorrect padding"]
    ELSE LET c == Head(s)
             v == B64Value(c)
         IN IF c = 61 THEN
                IF quad_pos >= 2 /\ quad_pos + pads + 1 >= 4
                THEN [ok |-> TRUE, bytes |-> out, error |-> ""]
                ELSE A2bBase64(Tail(s), quad_pos,
                               IF quad_pos >= 2 THEN pads + 1 ELSE pads,
                               leftchar, out)
            ELSE IF v >= 64 THEN A2bBase64(Tail(s), quad_pos, pads, leftchar, out)
            ELSE IF quad_pos = 0 THEN A2bBase64(Tail(s), 1, 0, v, out)
            ELSE IF quad_pos = 1 THEN
                A2bBase64(Tail(s), 2, 0, v % 16,
                          Append(out, (leftchar * 4) + (v \div 16)))
            ELSE IF quad_pos = 2 THEN
                A2bBase64(Tail(s), 3, 0, v % 4,
                          Append(out, (leftchar * 16) + (v \div 4)))
            ELSE A2bBase64(Tail(s), 0, 0, 0, Append(out, (leftchar * 64) + v))

\* base64.b64decode(content) for a str argument: the str is first encoded
\* as ASCII, which raises ValueError on any character above 127.
B64Decode(content) ==
    IF \E k \in 1..Len(content) : content[k] > 127
    THEN [ok |-> FALSE, bytes |-> <<>>,
          error |-> "string argument should contain only ASCII characters"]
    ELSE A2bBase64(content, 0, 0, 0, <<>>)

RECURSIVE Utf8Ignore(_)
\* bytes.decode('utf-8', errors='ignore'): ASCII bytes and well-formed
\* two-byte sequences decode, any other byte is dropped.  (Three- and
\* four-byte sequences are not modelled: no modelled input holds one.)
Utf8Ignore(bytes) ==
    IF bytes = <<>> THEN <<>>
    ELSE LET b == Head(bytes)
         IN IF b < 128 THEN <<b>> \o Utf8Ignore(Tail(bytes))
            ELSE IF /\ b >= 194 /\ b <= 223 /\ Len(bytes) >= 2
                    /\ bytes[2] >= 128 /\ bytes[2] <= 191
            THEN <<((b - 192) * 64) + (bytes[2] - 128)>>
                 \o Utf8Ignore(Tail(Tail(bytes)))
            ELSE Utf8Ignore(Tail(bytes))

\* base64.b64decode(item.content).decode('utf-8', errors='ignore')
Decode(content) ==
    The({ IF r.ok THEN [ok |-> TRUE, text |-> Utf8Ignore(r.bytes), error |-> ""]
          ELSE [ok |-> FALSE, text |-> <<>>, error |-> r.error] :
          r \in {B64Decode(content)} })

----------------------------------------------------------------------------
(* Lines                                                                   *)

RECURSIVE SplitLinesFrom(_, _)
SplitLinesFrom(s, cur) ==
    IF s = <<>> THEN (IF cur = <<>> THEN <<>> ELSE <<cur>>)
    ELSE IF Head(s) = 10 THEN <<Append(cur, 10)>> \o SplitLinesFrom(Tail(s), <<>>)
    ELSE SplitLinesFrom(Tail(s), Append(cur, Head(s)))

\* text.splitlines(keepends=True); "\n" is the only line boundary the
\* modelled texts hold.
SplitLines(text) == SplitLinesFrom(text, <<>>)

\* A line without its line end.
Chomp(line) ==
    IF line # <<>> /\ line[Len(line)] = 10 THEN SubSeq(line, 1, Len(line) - 1)
    ELSE line

----------------------------------------------------------------------------
(* Normalizer: black.format_str(isort.code(text, profile="black"))         *)
(*                                                                         *)
(* The formatter is an external library.  Its stand-in keeps what the      *)
(* handler relies on: it is a deterministic function of the text, it       *)
(* raises on text that is not Python, and its output can differ from its   *)
(* input.  The Python it knows is comment lines and NAME=VALUE lines.      *)

\* A line the stand-in cannot parse: one that starts with "/" (so a "//"
\* comment) or with a space, or that holds a "(" (never closed).
Unparsable(line) ==
    /\ line # <<>>
    /\ \/ line[1] = 47
       \/ line[1] = 32
       \/ \E k \in 1..Len(line) : line[k] = 40

RECURSIVE FormatStatement(_)
\* NAME=VALUE with any spacing becomes "NAME = VALUE".
FormatStatement(line) ==
    IF line = <<>> THEN <<>>
    ELSE IF Head(line) = 32 THEN FormatStatement(Tail(line))
    ELSE IF Head(line) = 61 THEN <<32, 61, 32>> \o FormatStatement(Tail(line))
    ELSE <<Head(line)>> \o FormatStatement(Tail(line))

FormatLine(line) ==
    IF line = <<>> THEN <<>>
    ELSE IF line[1] = 35 THEN line \o <<10>>
    ELSE FormatStatement(line) \o <<10>>

\* format_str(isort.code(text, profile="black"), mode=FileMode()): the
\* canonical text, or the exception raised.
FormatStr(text) ==
    The({ IF \E k \in 1..Len(lines) : Unparsable(Chomp(lines[k]))
          THEN [ok |-> FALSE, text |-> <<>>, error |-> "Cannot parse"]
          ELSE [ok |-> TRUE,
                text |-> Concat([k \in 1..Len(lines) |->
                                    FormatLine(Chomp(lines[k]))]),
                error |-> ""] :
          lines \in {SplitLines(text)} })

----------------------------------------------------------------------------
(* Diff engine: difflib.unified_diff(a, b, fromfile, tofile, lineterm='')  *)

RECURSIVE MatchLen(_, _, _, _, _, _)
\* Length of the common run of a[i:ahi] and b[j:bhi] (0-based indices).
MatchLen(a, b, i, j, ahi, bhi) ==
    IF i < ahi /\ j < bhi /\ a[i + 1] = b[j + 1]
    THEN 1 + MatchLen(a, b, i + 1, j + 1, ahi, bhi)
    ELSE 0

\* SequenceMatcher.find_longest_match: the longest matching block of
\* a[alo:ahi] and b[blo:bhi]; of the longest, the one starting earliest in
\* a and, of those, earliest in b.  <<alo, blo, 0>> when nothing matches.
FindLongestMatch(a, b, alo, ahi, blo, bhi) ==
    LET cands == {<<i, j>> \in (alo..(ahi - 1)) \X (blo..(bhi - 1)) :
                      MatchLen(a, b, i, j, ahi, bhi) > 0}
        size(c) == MatchLen(a, b, c[1], c[2], ahi, bhi)
    IN IF cands = {} THEN <<alo, blo, 0>>
       ELSE LET best == CHOOSE c \in cands :
                            \A d \in cands :
                                \/ size(c) > size(d)
                                \/ /\ size(c) = size(d)
                                   /\ \/ c[1] < d[1]
                                      \/ c[1] = d[1] /\ c[2] <= d[2]
            IN <<best[1], best[2], size(best)>>

RECURSIVE MatchingBlocks(_, _, _, _, _, _)
\* SequenceMatcher.get_matching_blocks, without the closing sentinel.
MatchingBlocks(a, b, alo, ahi, blo, bhi) ==
    The({ IF m[3] = 0 THEN <<>>
          ELSE (IF alo < m[1] /\ blo < m[2]
                THEN MatchingBlocks(a, b, alo, m[1], blo, m[2]) ELSE <<>>)
               \o <<m>>
               \o (IF m[1] + m[3] < ahi /\ m[2] + m[3] < bhi
                   THEN MatchingBlocks(a, b, m[1] + m[3], ahi, m[2] + m[3], bhi)
                   ELSE <<>>) :
          m \in {FindLongestMatch(a, b, alo, ahi, blo, bhi)} })

RECURSIVE OpcodesFrom(_, _, _)
\* SequenceMatcher.get_opcodes: walk the matching blocks from (i, j).
OpcodesFrom(blocks, i, j) ==
    IF blocks = <<>> THEN <<>>
    ELSE LET ai == Head(blocks)[1]
             bj == Head(blocks)[2]
             size == Head(blocks)[3]
             tag == IF i < ai /\ j < bj THEN "replace"
                    ELSE IF i < ai THEN "delete"
                    ELSE IF j < bj THEN "insert"
                    ELSE ""
         IN (IF tag # ""
             THEN <<[tag |-> tag, i1 |-> i, i2 |-> ai, j1 |-> j, j2 |-> bj]>>
             ELSE <<>>)
            \o (IF size > 0
                THEN <<[tag |-> "equal", i1 |-> ai, i2 |-> ai + size,
                        j1 |-> bj, j2 |-> bj + size]>>
                ELSE <<>>)
            \o OpcodesFrom(Tail(blocks), ai + size, bj + size)

Opcodes(a, b) ==
    The({ OpcodesFrom(blocks, 0, 0) :
          blocks \in {MatchingBlocks(a, b, 0, Len(a), 0, Len(b))
                          \o <<(<<Len(a), Len(b), 0>>)>>} })

\* SequenceMatcher.get_grouped_opcodes(n=3), for inputs whose changes all
\* fall in one group (no run of more than 6 equal lines between changes):
\* the leading and the trailing run of equal lines are cut to 3 lines, and
\* a group that is a single "equal" is no group.
TrimFirst(codes) ==
    IF codes # <<>> /\ codes[1].tag = "equal"
    THEN [codes EXCEPT ![1].i1 = Max(codes[1].i1, codes[1].i2 - 3),
                       ![1].j1 = Max(codes[1].j1, codes[1].j2 - 3)]
    ELSE codes

TrimLast(codes) ==
    IF codes # <<>> /\ codes[Len(codes)].tag = "equal"
    THEN [codes EXCEPT
            ![Len(codes)].i2 = Min(codes[Len(codes)].i2, codes[Len(codes)].i1 + 3),
            ![Len(codes)].j2 = Min(codes[Len(codes)].j2, codes[Len(codes)].j1 + 3)]
    ELSE codes

GroupedOpcodes(a, b) ==
    The({ IF codes = <<>> \/ (Len(codes) = 1 /\ codes[1].tag = "equal")
          THEN <<>>
          ELSE The({ TrimLast(first) : first \in {TrimFirst(codes)} }) :
          codes \in {Opcodes(a, b)} })

RECURSIVE Decimal(_)
\* str(n) for n >= 0
Decimal(n) ==
    IF n < 10 THEN <<48 + n>> ELSE Append(Decimal(n \div 10), 48 + (n % 10))

\* difflib._format_range_unified(start, stop)
FormatRangeUnified(start, stop) ==
    LET length == stop - start
        beginning == IF length = 0 THEN start ELSE start + 1
    IN IF length = 1 THEN Decimal(beginning)
       ELSE Decimal(beginning) \o <<44>> \o Decimal(length)

\* The lines one opcode writes: " " + line, "-" + line, "+" + line.
OpcodeLines(op, a, b) ==
    LET olds == [k \in 1..(op.i2 - op.i1) |-> a[op.i1 + k]]
        news == [k \in 1..(op.j2 - op.j1) |-> b[op.j1 + k]]
    IN IF op.tag = "equal" THEN Concat([k \in DOMAIN olds |-> <<32>> \o olds[k]])
       ELSE (IF op.tag \in {"replace", "delete"}
             THEN Concat([k \in DOMAIN olds |-> <<45>> \o olds[k]]) ELSE <<>>)
            \o (IF op.tag \in {"replace", "insert"}
                THEN Concat([k \in DOMAIN news |-> <<43>> \o news[k]]) ELSE <<>>)

\* ''.join(difflib.unified_diff(orig_lines, new_lines, fromfile=path,
\*                              tofile=path, lineterm=''))
UnifiedDiff(a, b, path) ==
    The({ IF group = <<>> THEN <<>>
          ELSE <<45, 45, 45, 32>> \o path
               \o <<43, 43, 43, 32>> \o path
               \o <<64, 64, 32, 45>>
               \o FormatRangeUnified(group[1].i1, group[Len(group)].i2)
               \o <<32, 43>>
               \o FormatRangeUnified(group[1].j1, group[Len(group)].j2)
               \o <<32, 64, 64>>
               \o Concat([k \in 1..Len(group) |-> OpcodeLines(group[k], a, b)]) :
          group \in {GroupedOpcodes(a, b)} })

----------------------------------------------------------------------------
(* /refactor: the work done on one target file                             *)

\* datetime.utcnow().strftime(...): the clock reading t, a count of
\* seconds, written in decimal.
Timestamp(t) == Decimal(t)

\* hashlib.sha256((request.request_id + path).encode()).hexdigest()[:8],
\* scaled with the digest: the first 2 of its 4 digits.
ReasonId(request_id, path) == SubSeq(Sha(request_id \o path), 1, 2)

\* The AI-REF comment line, "# AI-REF: ..." for a .py path and
\* "// AI-REF: ..." for any other; the text between the braces is
\* shortened to the timestamp, a space and the reason id.
Comment(request_id, path, t) ==
    (IF EndsWithPy(path) THEN <<35>> ELSE <<47, 47>>)
    \o <<32, 65, 73, 45, 82, 69, 70, 58, 32>>
    \o Timestamp(t) \o <<32>> \o ReasonId(request_id, path) \o <<10>>

\* The coder stub: new_content = comment + orig_content
Candidate(request_id, path, orig_content, t) ==
    Comment(request_id, path, t) \o orig_content

\* FormatBoth with the except clause forgetting error_msg = str(e).
FormatBothNoMessage(orig_content, new_content) ==
    The({ IF fo.ok /\ fn.ok
          THEN [formatting_ok |-> TRUE, formatted_orig |-> fo.text,
                formatted_new |-> fn.text, error_msg |-> None]
          ELSE [formatting_ok |-> FALSE, formatted_orig |-> orig_content,
                formatted_new |-> new_content, error_msg |-> None] :
          fo \in {FormatStr(orig_content)}, fn \in {FormatStr(new_content)} })

\* The try block around the two format_str calls: the first call that
\* raises abandons the block, and the handler then replaces BOTH
\* formatted texts by the unformatted ones.
FormatBoth(orig_content, new_content) ==
    The({ IF fo.ok /\ fn.ok
          THEN [formatting_ok |-> TRUE, formatted_orig |-> fo.text,
                formatted_new |-> fn.text, error_msg |-> None]
          ELSE [formatting_ok |-> FALSE, formatted_orig |-> orig_content,
                formatted_new |-> new_content,
                error_msg |-> IF fo.ok THEN fn.error ELSE fo.error] :
          fo \in {FormatStr(orig_content)}, fn \in {FormatStr(new_content)} })

\* The result appended for a path with a ".." segment.
PathErrorEntry(path) ==
    [path |-> path, orig_sha |-> <<>>, new_sha |-> <<>>, diff |-> <<>>,
     new_content |-> <<>>, formatting_ok |-> FALSE,
     error |-> "validation_error: invalid path"]

\* The result appended when decoding raised e.
DecodeErrorEntry(path, e) ==
    [path |-> path, orig_sha |-> <<>>, new_sha |-> <<>>, diff |-> <<>>,
     new_content |-> <<>>, formatting_ok |-> FALSE,
     error |-> "decoding_error: " \o e]

\* The result appended for a file that decoded to orig_content, the clock
\* reading t at the coder stub.
\* EntryOf with new_sha hashed from formatted_orig, as orig_sha is.
EntryOfOrigDigestTwice(path, f, orig_lines, new_lines) ==
    [path |-> path,
     orig_sha |-> Sha(f.formatted_orig),
     new_sha |-> Sha(f.formatted_orig),
     diff |-> UnifiedDiff(orig_lines, new_lines, path),
     new_content |-> f.formatted_new,
     formatting_ok |-> f.formatting_ok,
     error |-> f.error_msg]

\* The entry built from the two formatted texts and what the try block
\* left in formatting_ok and error_msg.
EntryOf(path, f, orig_lines, new_lines) ==
    [path |-> path,
     orig_sha |-> Sha(f.formatted_orig),
     new_sha |-> Sha(f.formatted_new),
     diff |-> UnifiedDiff(orig_lines, new_lines, path),
     new_content |-> f.formatted_new,
     formatting_ok |-> f.formatting_ok,
     error |-> f.error_msg]

ComparedEntry(request_id, path, orig_content, t) ==
    The({ The({ The({ EntryOf(path, f, orig_lines, new_lines) :
                      orig_lines \in {SplitLines(f.formatted_orig)},
                      new_lines \in {SplitLines(f.formatted_new)} }) :
                f \in {FormatBoth(orig_content, new_content)} }) :
          new_content \in {Candidate(request_id, path, orig_content, t)} })

\* ResultFor with the content decoded before the path is checked.
ResultForDecodeFirst(request_id, item, t) ==
    The({ IF ~d.ok THEN DecodeErrorEntry(item.path, d.error)
          ELSE IF HasTraversal(item.path) THEN PathErrorEntry(item.path)
          ELSE ComparedEntry(request_id, item.path, d.text, t) :
          d \in {Decode(item.content)} })

\* The result one loop iteration appends for item, whichever branch it takes.
ResultFor(request_id, item, t) ==
    IF HasTraversal(item.path) THEN PathErrorEntry(item.path)
    ELSE The({ IF ~d.ok THEN DecodeErrorEntry(item.path, d.error)
               ELSE ComparedEntry(request_id, item.path, d.text, t) :
               d \in {Decode(item.content)} })

----------------------------------------------------------------------------
(* Commit adapter: the try block of the apply mode                         *)

\* f"ai-refactor/{datetime.utcnow().strftime('%Y%m%d%H%M%S')}"
BranchName(t) == "ai-refactor/" \o ToString(t)

\* os.path.join(root, path) for a relative path
JoinPath(root, path) == root \o OsSep \o path

\* The statements of the try block in order, on the repository at
\* os.getcwd().  Each can raise, and whatever ran before stays done:
\*   Repo(os.getcwd())              raises when the directory is no repository
\*   repo.git.checkout('-b', name)  raises when the branch exists
\*   request.workspace_root         raises AttributeError when the request
\*                                  model declares no such field
\*   open(...).write, index.add, index.commit
\* The result is the repository afterwards and the exception, None if none.
Commit(r, request, path, formatted_new, t) ==
    LET name == BranchName(t)
        branched == [r EXCEPT !.branches = @ \cup {name}, !.head = name]
    IN IF ~r.is_repo
       THEN [repo |-> r, raised |-> "InvalidGitRepositoryError"]
       ELSE IF name \in r.branches
       THEN [repo |-> r, raised |-> "GitCommandError"]
       ELSE IF "workspace_root" \notin DOMAIN request
       THEN [repo |-> branched, raised |-> "AttributeError"]
       ELSE LET file_path == JoinPath(request["workspace_root"], path)
            IN [repo |-> [branched EXCEPT
                            !.worktree = @ \cup {<<file_path, formatted_new>>},
                            !.index = @ \cup {file_path},
                            !.commits = Append(@, [branch |-> name,
                                                   message |-> "AI refactor commit",
                                                   files |-> {file_path}])],
                raised |-> None]

\* ApplyMode with the dry_run test left out.
ApplyModeAlways(request) == TRUE

\* if not request.dry_run: (the apply mode)
ApplyMode(request) == ~request.dry_run

\* The branch the response names: None on a dry run, else a name built
\* from a fresh clock reading t.
ResponseBranch(request, t) ==
    IF ~request.dry_run THEN BranchName(t) ELSE None

----------------------------------------------------------------------------
(* /plan                                                                   *)

\* sum(len(item.content) for item in request.skeletons)
TotalBytes(request) ==
    Sum([k \in 1..Len(request.skeletons) |-> Len(request.skeletons[k].content)])

\* The planner stub and the response it builds: every file_tree path,
\* sorted, each with its reason; the seed; the cost estimate.
Planned(request) ==
    The({ [status |-> 200,
           request_id |-> request.request_id,
           target_files |-> [k \in 1..Len(paths) |->
                                [path |-> paths[k],
                                 reason |-> <<"Refactor recommended for ", paths[k]>>]],
           planner_version |-> "1.0.0",
           seed |-> Seed(request.request_id),
           estimated_token_cost |-> TotalBytes(request) \div 4] :
          paths \in {Sorted([k \in 1..Len(request.file_tree) |->
                                request.file_tree[k].path])} })

\* PlanResponseFor with the budget checked before the workspace_root.
PlanResponseBudgetFirst(request) ==
    IF TotalBytes(request) > request.max_skeleton_bytes
    THEN [status |-> 400, detail |-> "max_skeleton_bytes exceeded"]
    ELSE IF HasTraversal(request.workspace_root)
    THEN [status |-> 400, detail |-> "Invalid workspace_root"]
    ELSE Planned(request)

\* The response of the /plan handler to request: 400 for a workspace_root
\* with a ".." segment, then 400 for skeletons over the budget, and
\* otherwise the plan.
PlanResponseFor(request) ==
    IF HasTraversal(request.workspace_root)
    THEN [status |-> 400, detail |-> "Invalid workspace_root"]
    ELSE IF TotalBytes(request) > request.max_skeleton_bytes
    THEN [status |-> 400, detail |-> "max_skeleton_bytes exceeded"]
    ELSE Planned(request)

\* AgentBrain.plan_refactoring: json.loads(response.text)['relevant_files'],
\* the model's reply handed back as it came.
RelevantFiles(reply) == reply.relevant_files

----------------------------------------------------------------------------
(* Bounds and inputs                                                       *)

\* Most target files in one /refactor request.
MaxFiles == 2
\* Last clock reading (seconds since the server started).
MaxClock == 1
\* Most file_tree entries, and most skeletons, in one /plan request.
MaxTree == 2

\* "r1"
RequestId == <<114, 49>>

\* "a.py", "b.js", "../a.py", "a..py"
PathPy == <<97, 46, 112, 121>>
PathJs == <<98, 46, 106, 115>>
PathUp == <<46, 46, 47, 97, 46, 112, 121>>
PathDots == <<97, 46, 46, 112, 121>>

\* base64 of "x=1\n" and of "(\n"
EncAssign == <<101, 68, 48, 120, 67, 103, 61, 61>>
EncParen == <<75, 65, 111, 61>>
\* "eD0xCg" (the padding is missing), "e" (one data character),
\* "e!D0x" (a character outside the alphabet) and a non-ASCII string
EncNoPadding == <<101, 68, 48, 120, 67, 103>>
EncOneChar == <<101>>
EncJunk == <<101, 33, 68, 48, 120>>
EncNonAscii == <<233, 68, 48, 120>>

\* The RefactorFile values a request is built from.
TargetItems ==
    { [path |-> PathPy, content |-> EncAssign],
      [path |-> PathJs, content |-> EncAssign],
      [path |-> PathPy, content |-> EncParen],
      [path |-> PathPy, content |-> EncNoPadding],
      [path |-> PathJs, content |-> EncNonAscii],
      [path |-> PathDots, content |-> EncJunk],
      [path |-> PathUp, content |-> EncOneChar] }

SeqsUpTo(S, n) == UNION {[1..k -> S] : k \in 0..n}

\* RefactorRequest: the four fields the pydantic model declares.
RefactorRequests ==
    [request_id : {RequestId},
     target_files : SeqsUpTo(TargetItems, MaxFiles),
     research_constraints : {[max_papers |-> 1, allowed_sources |-> <<>>]},
     dry_run : BOOLEAN]

\* "/ws" and "/ws/../etc"
RootPlain == <<47, 119, 115>>
RootUp == <<47, 119, 115, 47, 46, 46, 47, 101, 116, 99>>

TreeItems == {[path |-> p, type |-> "file", size |-> 1] :
                 p \in {PathPy, PathJs, PathUp}}

SkeletonItems == { [path |-> PathPy, content |-> EncAssign],
                   [path |-> PathJs, content |-> EncParen] }

PlanRequests ==
    [request_id : {RequestId},
     workspace_root : {RootPlain, RootUp},
     file_tree : SeqsUpTo(TreeItems, MaxTree),
     skeletons : SeqsUpTo(SkeletonItems, MaxTree),
     max_skeleton_bytes : {0, 8, 11, 100}]

\* What the text-generation service may answer to plan_refactoring.
Replies == [relevant_files : SeqsUpTo({PathPy, PathJs, PathUp}, MaxTree)]

----------------------------------------------------------------------------
(* State                                                                   *)

VARIABLES
    pc,            \* /refactor: "idle", "loop" (in the for loop), "done"
    request,       \* the RefactorRequest being served
    idx,           \* how many target files the for loop has taken
    results,       \* the handler's results list
    stamps,        \* per iteration: the clock reading the iteration began at
    commit_raised, \* per iteration: what the commit raised, None, or "skipped"
    response,      \* the /refactor response
    now,           \* the clock: the latest reading of datetime.utcnow()
    repo,          \* the git repository at os.getcwd()
    log,           \* what logger.error / logger.info wrote
    plan_pc,       \* /plan and plan_refactoring: "idle", "done", "brain"
    plan_request,  \* the PlanRequest, or the skeletons given to the brain
    plan_response  \* the /plan response, or the brain's returned paths

refactor_vars ==
    <<pc, request, idx, results, stamps, commit_raised, response, now, repo, log>>
plan_vars == <<plan_pc, plan_request, plan_response>>
vars == <<refactor_vars, plan_vars>>

\* The repository before the request: one branch, nothing staged.  The
\* process may also have been started outside any repository.
InitRepo(is_repo) ==
    [is_repo |-> is_repo, branches |-> {"main"}, head |-> "main",
     worktree |-> {}, index |-> {}, commits |-> <<>>]

Init ==
    /\ pc = "idle"
    /\ request = [request_id |-> <<>>, target_files |-> <<>>,
                  research_constraints |-> [max_papers |-> 0, allowed_sources |-> <<>>],
                  dry_run |-> TRUE]
    /\ idx = 0
    /\ results = <<>>
    /\ stamps = <<>>
    /\ commit_raised = <<>>
    /\ response = [status |-> 0]
    /\ now = 0
    /\ \E is_repo \in BOOLEAN : repo = InitRepo(is_repo)
    /\ log = <<>>
    /\ plan_pc = "idle"
    /\ plan_request = [request_id |-> <<>>]
    /\ plan_response = [status |-> 0]

----------------------------------------------------------------------------
(* /refactor, one action per step of the handler                           *)

\* The handler is entered: results = []
ReceiveRefactor(req) ==
    /\ pc = "idle"
    /\ pc' = "loop"
    /\ request' = req
    /\ idx' = 0
    /\ results' = <<>>
    /\ UNCHANGED <<stamps, commit_raised, response, now, repo, log, plan_vars>>

\* The item the loop is at.
Item == request.target_files[idx + 1]

InLoop == pc = "loop" /\ idx < Len(request.target_files)

\* Appended with results.insert(0, entry) in place of results.append(entry).
AppendedFront(rs, entry, raised) == <<entry>> \o rs

\* Appended with the append moved into the try block, after the commit.
AppendedIfCommitted(rs, entry, raised) ==
    IF raised = None THEN Append(rs, entry) ELSE rs

\* What a full iteration leaves in results: the entry is appended before
\* the commit is tried, so what the commit raised does not reach it.
Appended(rs, entry, raised) == Append(rs, entry)

\* An iteration for a path with a ".." segment: append, continue.
RejectPath ==
    /\ InLoop
    /\ HasTraversal(Item.path)
    /\ results' = Append(results, ResultFor(request.request_id, Item, now))
    /\ stamps' = Append(stamps, now)
    /\ commit_raised' = Append(commit_raised, "skipped")
    /\ idx' = idx + 1
    /\ UNCHANGED <<pc, request, response, now, repo, log, plan_vars>>

\* An iteration whose content does not decode: append, continue.
RejectContent ==
    /\ InLoop
    /\ ~HasTraversal(Item.path)
    /\ ~Decode(Item.content).ok
    /\ results' = Append(results, ResultFor(request.request_id, Item, now))
    /\ stamps' = Append(stamps, now)
    /\ commit_raised' = Append(commit_raised, "skipped")
    /\ idx' = idx + 1
    /\ UNCHANGED <<pc, request, response, now, repo, log, plan_vars>>

\* A full iteration: the clock is read at t1 for the comment and, in the
\* apply mode, at t2 for the branch name; an exception of the commit is
\* logged and the loop goes on.
RefactorFile ==
    /\ InLoop
    /\ ~HasTraversal(Item.path)
    /\ Decode(Item.content).ok
    /\ \E t1 \in now..MaxClock :
         \E entry \in {ResultFor(request.request_id, Item, t1)} :
            /\ stamps' = Append(stamps, t1)
            /\ IF ApplyMode(request)
               THEN \E t2 \in t1..MaxClock :
                      \E c \in {Commit(repo, request, Item.path,
                                        entry.new_content, t2)} :
                         /\ results' = Appended(results, entry, c.raised)
                         /\ commit_raised' = Append(commit_raised, c.raised)
                         /\ repo' = c.repo
                         /\ log' = IF c.raised = None THEN log
                                   ELSE Append(log, [error |-> "git_error",
                                                     message |-> c.raised])
                         /\ now' = t2
               ELSE /\ results' = Appended(results, entry, None)
                    /\ commit_raised' = Append(commit_raised, "skipped")
                    /\ now' = t1
                    /\ UNCHANGED <<repo, log>>
    /\ idx' = idx + 1
    /\ UNCHANGED <<pc, request, response, plan_vars>>

\* After the loop: the branch name is built from a new clock reading.
Respond ==
    /\ pc = "loop"
    /\ idx >= Len(request.target_files)
    /\ \E t \in now..MaxClock :
         /\ response' = [status |-> 200,
                         request_id |-> request.request_id,
                         results |-> results,
                         branch |-> ResponseBranch(request, t)]
         /\ now' = IF request.dry_run THEN now ELSE t
    /\ pc' = "done"
    /\ UNCHANGED <<request, idx, results, stamps, commit_raised, repo, log,
                   plan_vars>>

Next ==
    \/ \E req \in RefactorRequests : ReceiveRefactor(req)
    \/ RejectPath
    \/ RejectContent
    \/ RefactorFile
    \/ Respond

Spec == Init /\ [][Next]_vars

----------------------------------------------------------------------------
(* /plan and AgentBrain.plan_refactoring                                   *)

\* The /plan handler, start to end.
Plan(req) ==
    /\ plan_pc = "idle"
    /\ plan_pc' = "done"
    /\ plan_request' = req
    /\ \E resp \in {PlanResponseFor(req)} :
         /\ plan_response' = resp
         /\ log' = IF resp.status = 200
                   THEN Append(log, [event |-> "plan_completed",
                                     request_id |-> req.request_id,
                                     targets |-> resp.target_files])
                   ELSE log
    /\ UNCHANGED <<pc, request, idx, results, stamps, commit_raised, response,
                   now, repo>>

\* plan_refactoring(skeletons, instruction) with the service answering reply.
PlanRefactoring(skeletons, reply) ==
    /\ plan_pc = "idle"
    /\ plan_pc' = "brain"
    /\ plan_request' = [skeletons |-> skeletons]
    /\ plan_response' = [relevant_files |-> RelevantFiles(reply)]
    /\ UNCHANGED refactor_vars

PlanNext ==
    \/ \E req \in PlanRequests : Plan(req)
    \/ \E sk \in SeqsUpTo(SkeletonItems, MaxTree), reply \in Replies :
           PlanRefactoring(sk, reply)

PlanSpec == Init /\ [][PlanNext]_vars

----------------------------------------------------------------------------
(* Properties                                                              *)

\* Target file k of the request, and the entry the handler holds for it.
Target(k) == request.target_files[k]

\* File k got past path validation and decoding.
Compared(k) ==
    ~HasTraversal(Target(k).path) /\ Decode(Target(k).content).ok

\* The text file k decodes to, and the candidate the coder stub made of it.
OrigText(k) == Decode(Target(k).content).text
CandText(k) ==
    Candidate(request.request_id, Target(k).path, OrigText(k), stamps[k])

\* An error field that holds a message.
NonEmptyError(e) == e \notin {None, ""}

\* An entry with empty digests and diff.
EmptyEntry(e) == e.orig_sha = <<>> /\ e.new_sha = <<>> /\ e.diff = <<>>

\* The texts the original side of file k may stand for: the decoded text
\* and, when the formatter takes it, its formatted form.
OrigSides(k) ==
    {OrigText(k)} \cup (IF FormatStr(OrigText(k)).ok
                        THEN {FormatStr(OrigText(k)).text} ELSE {})

\* C1: a file whose path has a ".." segment, or whose content does not
\* decode, gets an entry with empty digests and diff and a non-empty error,
\* the path being checked first; every other file of the batch gets the
\* entry it gets on its own, and the request succeeds with status 200.
C1_FailureIsolated ==
    /\ Len(results) = idx
    /\ \A k \in 1..Len(results) :
         /\ HasTraversal(Target(k).path) =>
              /\ EmptyEntry(results[k])
              /\ results[k].error = "validation_error: invalid path"
         /\ (~HasTraversal(Target(k).path) /\ ~Decode(Target(k).content).ok) =>
              /\ EmptyEntry(results[k])
              /\ NonEmptyError(results[k].error)
              /\ results[k].error # "validation_error: invalid path"
         /\ Compared(k) =>
              results[k] = ComparedEntry(request.request_id, Target(k).path,
                                         OrigText(k), stamps[k])
    /\ pc = "done" =>
         /\ response.status = 200
         /\ response.results = results
         /\ idx = Len(request.target_files)

\* C1 witness: a finished batch in which one file failed to decode and
\* another was compared and has digests.
C1_Witness ==
    /\ pc = "done"
    /\ response.status = 200
    /\ \E j, k \in 1..Len(results) :
         /\ ~HasTraversal(Target(j).path)
         /\ ~Decode(Target(j).content).ok
         /\ Compared(k)
         /\ results[k].orig_sha # <<>>

\* C2: the results hold one entry per target file, in the order of the
\* request: results[i].path = target_files[i].path.
C2_OrderPreserved ==
    /\ Len(results) <= Len(request.target_files)
    /\ \A i \in 1..Len(results) : results[i].path = Target(i).path
    /\ pc = "done" =>
         /\ Len(response.results) = Len(request.target_files)
         /\ \A i \in 1..Len(response.results) :
              response.results[i].path = Target(i).path

\* C2 witness: a finished batch of two different paths, the first of which
\* failed and the second of which was compared.
C2_Witness ==
    /\ pc = "done"
    /\ Len(response.results) = 2
    /\ Target(1).path # Target(2).path
    /\ ~Compared(1)
    /\ Compared(2)

\* C3: on a dry run the repository is never touched, no git error is
\* logged, and the response names no branch.
C3_DryRunNoVcs ==
    request.dry_run =>
        /\ repo = InitRepo(repo.is_repo)
        /\ log = <<>>
        /\ pc = "done" => response.branch = None

\* C3 witness: a finished dry run, inside a repository, of a batch with a
\* failed and a compared file.
C3_Witness ==
    /\ pc = "done"
    /\ request.dry_run
    /\ repo.is_repo
    /\ \E j, k \in 1..Len(results) : ~Compared(j) /\ Compared(k)

\* C4: an entry with formatting_ok false has a non-empty error; and when
\* the formatter rejects the candidate, new_content is the unformatted
\* candidate, new_sha its digest, and orig_sha and the diff are computed
\* over one and the same original-side text.
C4_FailureHasError ==
    \A k \in 1..Len(results) :
        /\ ~results[k].formatting_ok => NonEmptyError(results[k].error)
        /\ (Compared(k) /\ ~FormatStr(CandText(k)).ok) =>
             /\ ~results[k].formatting_ok
             /\ results[k].new_content = CandText(k)
             /\ results[k].new_sha = Sha(CandText(k))
             /\ \E orig \in OrigSides(k) :
                  /\ results[k].orig_sha = Sha(orig)
                  /\ results[k].diff =
                        UnifiedDiff(SplitLines(orig), SplitLines(CandText(k)),
                                    Target(k).path)

\* C4 witness: a compared file whose original the formatter takes and
\* whose candidate it rejects.
C4_Witness ==
    \E k \in 1..Len(results) :
        /\ Compared(k)
        /\ FormatStr(OrigText(k)).ok
        /\ ~FormatStr(CandText(k)).ok
        /\ ~results[k].formatting_ok

\* C5: the two sides are formatted independently: a side the formatter
\* takes is reported in its formatted form whatever happens to the other
\* side, and formatting_ok is true exactly when it takes both.
C5_SidesIndependent ==
    \A k \in 1..Len(results) :
        Compared(k) =>
            /\ FormatStr(OrigText(k)).ok =>
                 results[k].orig_sha = Sha(FormatStr(OrigText(k)).text)
            /\ FormatStr(CandText(k)).ok =>
                 results[k].new_content = FormatStr(CandText(k)).text
            /\ results[k].formatting_ok <=>
                 (FormatStr(OrigText(k)).ok /\ FormatStr(CandText(k)).ok)

\* C6: a branch named in the response is a branch this request created
\* and committed a file to; with nothing committed the response names none.
C6_BranchIsMaterialized ==
    pc = "done" =>
        /\ response.branch # None =>
             /\ response.branch \in repo.branches
             /\ \E n \in 1..Len(repo.commits) :
                  repo.commits[n].branch = response.branch
        /\ repo.commits = <<>> => response.branch = None

\* C7: when the commit of a file raises, at whatever step, the entry
\* appended for the file stays as computed, the error is logged, the loop
\* takes the remaining files, and the request ends with status 200.
C7_CommitFailureKeepsResult ==
    /\ Len(commit_raised) = idx
    /\ \A k \in 1..Len(commit_raised) :
         commit_raised[k] \notin {None, "skipped"} =>
            /\ k <= Len(results)
            /\ results[k] = ResultFor(request.request_id, Target(k), stamps[k])
            /\ \E n \in 1..Len(log) : log[n].message = commit_raised[k]
    /\ commit_raised # <<>> => pc \in {"loop", "done"}
    /\ pc = "done" =>
         /\ idx = Len(request.target_files)
         /\ response.status = 200
         /\ \A k \in 1..Len(commit_raised) :
              commit_raised[k] \notin {None, "skipped"} =>
                 /\ k <= Len(response.results)
                 /\ response.results[k] = results[k]

\* C7 witness: a finished apply-mode batch whose first commit raised after
\* the branch was created and whose second raised at the branch creation.
C7_Witness ==
    /\ pc = "done"
    /\ commit_raised = <<"AttributeError", "GitCommandError">>
    /\ Len(response.results) = 2

\* The paths of the file tree, and the paths of the skeletons, of the
\* plan request.
TreePaths ==
    {plan_request.file_tree[k].path : k \in 1..Len(plan_request.file_tree)}
SkeletonPaths ==
    {plan_request.skeletons[k].path : k \in 1..Len(plan_request.skeletons)}

\* The summed length of the skeleton contents of the plan request.
SkeletonBytes ==
    Sum([k \in 1..Len(plan_request.skeletons) |->
            Len(plan_request.skeletons[k].content)])

\* C8: every path a plan returns is a path of the input it was given, and
\* none has a ".." segment, also when the brain names the paths.
C8_PlanPathsKnown ==
    /\ (plan_pc = "done" /\ plan_response.status = 200) =>
         \A k \in 1..Len(plan_response.target_files) :
            /\ plan_response.target_files[k].path \in TreePaths
            /\ ~HasTraversal(plan_response.target_files[k].path)
    /\ plan_pc = "brain" =>
         \A k \in 1..Len(plan_response.relevant_files) :
            /\ plan_response.relevant_files[k] \in SkeletonPaths
            /\ ~HasTraversal(plan_response.relevant_files[k])

\* C9: skeletons over the budget get a 400 that carries no target_files,
\* seed or cost, and nothing is logged as planned; a workspace_root with a
\* ".." segment is rejected as such even when the budget is exceeded too.
C9_BudgetRejects ==
    plan_pc = "done" =>
        /\ SkeletonBytes > plan_request.max_skeleton_bytes =>
             /\ plan_response.status = 400
             /\ DOMAIN plan_response = {"status", "detail"}
             /\ log = <<>>
        /\ HasTraversal(plan_request.workspace_root) =>
             plan_response = [status |-> 400, detail |-> "Invalid workspace_root"]
        /\ (~HasTraversal(plan_request.workspace_root)
            /\ SkeletonBytes > plan_request.max_skeleton_bytes) =>
             plan_response.detail = "max_skeleton_bytes exceeded"

\* C9 witness: a request with a plain workspace_root and skeletons over
\* the budget was answered 400.
C9_Witness ==
    /\ plan_pc = "done"
    /\ ~HasTraversal(plan_request.workspace_root)
    /\ plan_request.skeletons # <<>>
    /\ SkeletonBytes > plan_request.max_skeleton_bytes
    /\ plan_response.status = 400

\* C10: in the entry of a compared file, new_sha is the digest of
\* new_content, orig_sha and the diff are over one and the same original
\* text, and the diff is empty exactly when the two digests are equal,
\* which is exactly when the two texts are.
C10_DiffDigestsConsistent ==
    \A k \in 1..Len(results) :
        Compared(k) =>
            /\ results[k].new_sha = Sha(results[k].new_content)
            /\ \E orig \in OrigSides(k) :
                 /\ results[k].orig_sha = Sha(orig)
                 /\ results[k].diff =
                       UnifiedDiff(SplitLines(orig),
                                   SplitLines(results[k].new_content),
                                   Target(k).path)
                 /\ (results[k].diff = <<>>) <=> (orig = results[k].new_content)
            /\ (results[k].diff = <<>>) <=>
                  (results[k].orig_sha = results[k].new_sha)

\* C10 witness: a compared file that both sides formatted cleanly, with a
\* diff and two different digests.
C10_Witness ==
    \E k \in 1..Len(results) :
        /\ Compared(k)
        /\ results[k].formatting_ok
        /\ results[k].diff # <<>>
        /\ results[k].orig_sha # results[k].new_sha

====
